---- MODULE Spec2Model ----
(***************************************************************************)
(* Model of gbj_memory: a logical-position memory layer (begin,            *)
(* storeStream, retrieveStream, fill, erase, store<T>, retrieve<T>,        *)
(* retrieveCurrent) on top of the two-wire transport gbj_twowire.  The     *)
(* transport and the memory chip behind it are modelled as a byte-array    *)
(* device with an address pointer; every transport call may fail.          *)
(***************************************************************************)
EXTENDS Integers, Naturals, Sequences, FiniteSets, TLC

VARIABLES
  intBits,        \* width of int of the build: 16 (AVR) or 32 (ESP, Particle)
  begun,          \* begin() has been called
  memoryStatus,   \* struct MemoryStatus _memoryStatus
  lastResult,     \* gbj_twowire's last result code
  busStop,        \* TRUE: stop mode, FALSE: repeated start mode
  dev,            \* device cells written so far: physical address -> byte
  devPtr,         \* address pointer of the device
  pc,             \* position in the running operation, "idle" between calls
  op,             \* the top-level call in progress or last returned
  ret,            \* value returned by the last top-level call
  position,       \* storeStream: running logical position
  dataBuffer,     \* storeStream: the caller's buffer
  dataOff,        \* storeStream: offset of the pointer dataBuffer in it
  dataLen,        \* storeStream: remaining length
  realPosition,   \* storeStream: local realPosition
  pages,          \* erase: remaining pages
  erasePos,       \* erase: local position
  fillI,          \* fill: loop counter i (uint8_t)
  log,            \* transport calls of the top-level call, in order
  fills,          \* erase: the fill calls made, in order
  memAtCall,      \* device cells when the top-level call started
  buf,            \* the caller's buffer of the last retrieve
  nOps            \* number of top-level calls made

vars == <<intBits, begun, memoryStatus, lastResult, busStop, dev, devPtr, pc,
          op, ret, position, dataBuffer, dataOff, dataLen, realPosition,
          pages, erasePos, fillI, log, fills, memAtCall, buf, nOps>>

----------------------------------------------------------------------------
(* Bounds of the model *)

MaxOps == 3      \* top-level calls in one behaviour
MaxCalls == 5    \* transport calls recorded for one top-level call

----------------------------------------------------------------------------
(* Fixed-width integers *)

Pow16 == 65536

U8(x) == x % 256
U16(x) == x % Pow16

\* a + b, a and b of type uint16_t: unsigned int where int has 16 bits,
\* int (after integer promotion) where it has 32
Add16(a, b) == IF intBits = 16 THEN U16(a + b) ELSE a + b

\* Min that returns its first argument whatever the second
Min_First(a, b) == a

Min(a, b) == IF a < b THEN a ELSE b
Max(a, b) == IF a > b THEN a ELSE b

----------------------------------------------------------------------------
(* Result codes *)

SUCCESS == "SUCCESS"
ERROR_POSITION == "ERROR_POSITION"
TransportErrors == {"ERROR_NACK_OTHER", "ERROR_NACK_DATA"}
TransportResults == {SUCCESS} \cup TransportErrors

----------------------------------------------------------------------------
(* The device behind the transport *)

\* content of a cell that was never written
InitByte(a) == (7 * a + 3) % 251

DevRead(d, a) == IF a \in DOMAIN d THEN d[a] ELSE InitByte(a)

\* bytes written from address a on, the address pointer wrapping at 2^16
DevWrite(d, a, bytes) ==
  LET cells == {U16(a + i - 1) : i \in 1..Len(bytes)}
  IN  [c \in DOMAIN d \cup cells |->
         IF c \in cells THEN bytes[U16(c - a + Pow16) + 1] ELSE d[c]]

DevReadSeq(d, a, n) == [i \in 1..n |-> DevRead(d, U16(a + i - 1))]

\* the address bytes sent for realPosition: its low byte alone, or both
PrefixAddr(real, len) == IF len = 1 THEN U8(real) ELSE real

----------------------------------------------------------------------------
(* Getters *)

\* uint32_t, of the sum computed in (unsigned) int
getCapacityByte == Add16(memoryStatus.maxPosition, 1)
getPageSize == memoryStatus.pageSize
getPages == U16(getCapacityByte \div getPageSize)
\* getPositionReal with the sum kept in one byte
getPositionReal_Byte(logicalPosition) ==
  U8(logicalPosition + memoryStatus.minPosition)

getPositionReal(logicalPosition) ==
  U16(logicalPosition + memoryStatus.minPosition)
getPositionInBytes == memoryStatus.positionInBytes

\* checkPosition: the result code it sets and returns
checkPosition(pos, len) ==
  IF len = 0 \/ memoryStatus.maxPosition < Add16(pos, len)
  THEN ERROR_POSITION
  ELSE SUCCESS

\* pageLen of one iteration of storeStream (uint8_t)
pageLen(pos, len) ==
  U8(Min(len, memoryStatus.pageSize - (pos % memoryStatus.pageSize)))

----------------------------------------------------------------------------
(* Inputs *)

\* begin(maxPosition, pageSize, minPosition)
Configs == { <<7, 4, 0>>, <<11, 4, 2>>, <<59, 16, 0>>, <<3, 0, 9>>,
             <<3, 8, 0>>, <<65535, 256, 0>> }

\* (position, dataLen) of the stream operations and of fill
Requests == { <<0, 1>>, <<0, 0>>, <<0, 8>>, <<3, 5>>, <<2, 9>>,
              <<10, 40>>, <<0, 256>>, <<65535, 2>> }

\* bytes i, i + 1, ... of a caller's buffer
Ramp(seed, n) == [i \in 1..n |-> U8(seed + i - 1)]

FillValues == {90}

\* store<T>, retrieve<T>: (position, sizeof(T), value) with the int 0xAA55
\* and the float 123.45
TypedRequests == { <<0, 2, 43605>>, <<0, 4, 1123477094>>,
                   <<6, 4, 1123477094>> }

NoOp == [name |-> "none", position |-> 0, len |-> 0, data |-> <<>>, value |-> 0]

----------------------------------------------------------------------------
Init ==
  /\ intBits \in {16, 32}
  /\ begun = FALSE
  /\ \E b \in BOOLEAN :
       memoryStatus = [minPosition |-> 0, maxPosition |-> 0, pageSize |-> 1,
                       positionInBytes |-> b]
  /\ lastResult = SUCCESS
  /\ busStop = TRUE
  /\ dev = <<>>
  /\ devPtr = 0
  /\ pc = "idle"
  /\ op = NoOp
  /\ ret = SUCCESS
  /\ position = 0
  /\ dataBuffer = <<>>
  /\ dataOff = 0
  /\ dataLen = 0
  /\ realPosition = 0
  /\ pages = 0
  /\ erasePos = 0
  /\ fillI = 0
  /\ log = <<>>
  /\ fills = <<>>
  /\ memAtCall = <<>>
  /\ buf = <<>>
  /\ nOps = 0

storeLocals == <<position, dataBuffer, dataOff, dataLen, realPosition>>
device == <<dev, devPtr>>

\* a top-level call starts
Enter(name, pos, len, data, value) ==
  /\ pc = "idle"
  /\ nOps < MaxOps
  /\ nOps' = nOps + 1
  /\ op' = [name |-> name, position |-> pos, len |-> len, data |-> data,
            value |-> value]
  /\ memAtCall' = dev

\* one transport call as recorded in log
Call(kind, addr, addrLen, off, len, res) ==
  [call |-> kind, addr |-> addr, addrLen |-> addrLen, off |-> off,
   len |-> len, res |-> res]

prfxLen == IF getPositionInBytes THEN 1 ELSE 2

\* the top-level call returns r
Return(r) == pc' = "idle" /\ ret' = r /\ erasePos' = erasePos

Continue(at) == pc' = at /\ ret' = ret /\ erasePos' = erasePos

\* fillReturn with erase going on to the next page whatever fill returned
fillReturn_Ignored(r) ==
  IF op'.name = "erase"
  THEN pc' = "erase" /\ ret' = ret /\ erasePos' = U16(erasePos + getPageSize)
  ELSE Return(r)

\* fill returns r: to erase (lines 247-251) or to the caller
fillReturn(r) ==
  IF op'.name = "erase" /\ r = SUCCESS
  THEN pc' = "erase" /\ ret' = ret /\ erasePos' = U16(erasePos + getPageSize)
  ELSE Return(r)

begin(maxPosition, pageSize, minPosition) ==
  /\ Enter("begin", minPosition, maxPosition, <<>>, pageSize)
  /\ LET mn == Min(minPosition, maxPosition)
     IN  memoryStatus' = [memoryStatus EXCEPT !.minPosition = mn,
                                              !.maxPosition = maxPosition - mn,
                                              !.pageSize = Max(pageSize, 1)]
  /\ begun' = TRUE
  /\ \E r \in TransportResults : lastResult' = r /\ ret' = r
  /\ log' = <<>>
  /\ UNCHANGED <<intBits, busStop, device, pc, storeLocals, pages, erasePos,
                 fills, fillI, buf>>

setPositionInBytes ==
  /\ pc = "idle"
  /\ memoryStatus' = [memoryStatus EXCEPT !.positionInBytes = TRUE]
  /\ UNCHANGED <<intBits, begun, lastResult, busStop, device, pc, op, ret,
                 storeLocals, pages, erasePos, fills, fillI, log, memAtCall,
                 buf, nOps>>

setPositionInWords ==
  /\ pc = "idle"
  /\ memoryStatus' = [memoryStatus EXCEPT !.positionInBytes = FALSE]
  /\ UNCHANGED <<intBits, begun, lastResult, busStop, device, pc, op, ret,
                 storeLocals, pages, erasePos, fills, fillI, log, memAtCall,
                 buf, nOps>>

\* storeStreamEntry with a first transport write made before the range check
storeStreamEntry_WriteFirst(pos, buffer, len, calls) ==
  /\ log' = IF len > 0
            THEN Append(calls, Call("write", getPositionReal(pos), 2, 0, len,
                                    SUCCESS))
            ELSE calls
  /\ realPosition' = getPositionReal(pos)
  /\ position' = pos
  /\ dataBuffer' = buffer
  /\ dataOff' = 0
  /\ dataLen' = len
  /\ lastResult' = checkPosition(pos, len)
  /\ IF checkPosition(pos, len) # SUCCESS
     THEN fillReturn(ERROR_POSITION)
     ELSE Continue("store")

\* storeStream up to its loop (lines 112-116), called with (pos, buffer, len)
\* after the transport calls of calls
storeStreamEntry(pos, buffer, len, calls) ==
  /\ log' = calls
  /\ realPosition' = getPositionReal(pos)
  /\ position' = pos
  /\ dataBuffer' = buffer
  /\ dataOff' = 0
  /\ dataLen' = len
  /\ lastResult' = checkPosition(pos, len)
  /\ IF checkPosition(pos, len) # SUCCESS
     THEN fillReturn(ERROR_POSITION)
     ELSE Continue("store")

\* sendFailed with the result of the call ignored
sendFailed_Ignored(r) == FALSE

\* if (busSendStreamPrefixed(...)) of lines 121-128, r the result of the call
sendFailed(r) == r # SUCCESS

\* one iteration of the loop of storeStream (lines 117-134), and the return
\* of line 135 when it was the last one
storeStreamLoop ==
  /\ pc = "store"
  /\ op' = op
  /\ Len(log) < MaxCalls
  /\ \E r \in TransportResults :
       /\ log' = Append(log, Call("write", PrefixAddr(realPosition, prfxLen),
                                  prfxLen, dataOff, dataLen, r))
       /\ lastResult' = r
       /\ IF r = SUCCESS
          THEN /\ dev' = DevWrite(dev, PrefixAddr(realPosition, prfxLen),
                                  SubSeq(dataBuffer, dataOff + 1,
                                         dataOff + dataLen))
               /\ devPtr' = U16(PrefixAddr(realPosition, prfxLen) + dataLen)
          ELSE UNCHANGED device
       /\ IF sendFailed(r)
          THEN /\ fillReturn(r)
               /\ UNCHANGED storeLocals
          ELSE /\ dataLen' = dataLen - pageLen(position, dataLen)
               /\ dataOff' = dataOff + pageLen(position, dataLen)
               /\ position' = U16(position + pageLen(position, dataLen))
               /\ IF dataLen' = 0 THEN fillReturn(r) ELSE Continue("store")
               /\ UNCHANGED <<dataBuffer, realPosition>>
  /\ UNCHANGED <<intBits, begun, memoryStatus, busStop, pages, fills,
                 fillI, memAtCall, buf, nOps>>

storeStream(pos, data) ==
  /\ begun
  /\ Enter("storeStream", pos, Len(data), data, 0)
  /\ storeStreamEntry(pos, data, Len(data), <<>>)
  /\ UNCHANGED <<intBits, begun, memoryStatus, busStop, device, pages, fills,
                 fillI, buf>>

\* store<T>(position, data): the bytes of data in the host's layout
LEBytes(v, size) == [i \in 1..size |-> (v \div (256 ^ (i - 1))) % 256]

store(pos, size, v) ==
  /\ begun
  /\ Enter("store", pos, size, LEBytes(v, size), v)
  /\ storeStreamEntry(pos, LEBytes(v, size), size, <<>>)
  /\ UNCHANGED <<intBits, begun, memoryStatus, busStop, device, pages, fills,
                 fillI, buf>>

\* the length fill passes on (line 214): the difference is computed in
\* uint32_t, and a negative one wraps to more than any uint16_t
fillLen(pos, len) ==
  IF getCapacityByte < pos THEN len ELSE Min(len, getCapacityByte - pos)

\* fill (lines 214-225), called with (pos, len, fillValue) after the
\* transport calls of calls
fillBody(pos, len, fillValue, calls) ==
  IF checkPosition(pos, fillLen(pos, len)) # SUCCESS
  THEN /\ lastResult' = ERROR_POSITION
       /\ fillReturn(ERROR_POSITION)
       /\ log' = calls
       /\ UNCHANGED <<storeLocals, fillI>>
  ELSE IF fillLen(pos, len) > 255
  THEN \* uint8_t i never reaches dataLen
       /\ lastResult' = SUCCESS
       /\ Continue("fill")
       /\ fillI' = 0
       /\ log' = calls
       /\ UNCHANGED storeLocals
  ELSE /\ fillI' = fillLen(pos, len)
       /\ storeStreamEntry(pos, [i \in 1..fillLen(pos, len) |-> fillValue],
                           fillLen(pos, len), calls)

fill(pos, len, fillValue) ==
  /\ begun
  /\ Enter("fill", pos, len, <<>>, fillValue)
  /\ fillBody(pos, len, fillValue, <<>>)
  /\ UNCHANGED <<intBits, begun, memoryStatus, busStop, device, pages, fills,
                 buf>>

\* the loop of lines 221-224 with dataLen > 255
fillLoop ==
  /\ pc = "fill"
  /\ fillI' = U8(fillI + 1)
  /\ UNCHANGED <<intBits, begun, memoryStatus, lastResult, busStop, device,
                 pc, op, ret, storeLocals, pages, erasePos, fills, log,
                 memAtCall, buf, nOps>>

erase ==
  /\ begun
  /\ Enter("erase", 0, 0, <<>>, 255)
  /\ log' = <<>>
  /\ fills' = <<>>
  /\ pages' = getPages
  /\ pc' = "erase"
  /\ erasePos' = 0
  /\ UNCHANGED <<intBits, begun, memoryStatus, lastResult, busStop, device,
                 ret, storeLocals, fillI, buf>>

\* while (pages--) of erase with the call of fill (lines 245-247), or the
\* return of line 253
eraseLoop ==
  /\ pc = "erase"
  /\ op' = op
  /\ pages' = U16(pages + Pow16 - 1)
  /\ IF pages = 0
     THEN /\ Return(lastResult)
          /\ UNCHANGED <<lastResult, storeLocals, fillI, fills, log>>
     ELSE /\ fills' = Append(fills, [position |-> erasePos,
                                     len |-> getPageSize, value |-> 255])
          /\ fillBody(erasePos, getPageSize, 255, log)
  /\ UNCHANGED <<intBits, begun, memoryStatus, busStop, device, memAtCall,
                 buf, nOps>>

\* addressFailed with the result of the address write ignored
addressFailed_Ignored(r) == FALSE

\* if (busSendStream(...)) of lines 174-176, r the result of the call
addressFailed(r) == r # SUCCESS

\* retrieveStream (lines 168-181), called as operation name
retrieveBody(name, pos, len) ==
  /\ begun
  /\ Enter(name, pos, len, <<>>, 0)
  /\ realPosition' = getPositionReal(pos)
  /\ IF checkPosition(pos, len) # SUCCESS
     THEN /\ lastResult' = ERROR_POSITION
          /\ Return(ERROR_POSITION)
          /\ log' = <<>>
          /\ buf' = [i \in 1..len |-> 0]
          /\ UNCHANGED <<busStop, device>>
     ELSE \E r1, r2 \in TransportResults :
            LET addr == PrefixAddr(getPositionReal(pos), prfxLen)
                sent == Call("addr", addr, prfxLen, 0, 0, r1)
            IN  IF addressFailed(r1)
                THEN /\ r2 = SUCCESS
                     /\ busStop' = FALSE
                     /\ log' = <<sent>>
                     /\ lastResult' = r1
                     /\ Return(r1)
                     /\ buf' = [i \in 1..len |-> 0]
                     /\ UNCHANGED device
                ELSE /\ busStop' = TRUE
                     /\ log' = <<sent, Call("read", addr, 0, 0, len, r2)>>
                     /\ lastResult' = r2
                     /\ Return(r2)
                     /\ IF r2 # SUCCESS
                        THEN /\ buf' = [i \in 1..len |-> 0]
                             /\ dev' = dev
                             /\ devPtr' = addr
                        ELSE /\ buf' = DevReadSeq(dev, addr, len)
                             /\ dev' = dev
                             /\ devPtr' = U16(addr + len)
  /\ UNCHANGED <<intBits, begun, memoryStatus, position, dataBuffer, dataOff,
                 dataLen, pages, fills, fillI>>

retrieveStream(pos, len) == retrieveBody("retrieveStream", pos, len)

\* retrieve<T>(position, data) with sizeof(T) = size
retrieve(pos, size) == retrieveBody("retrieve", pos, size)

retrieveCurrent ==
  /\ begun
  /\ Enter("retrieveCurrent", 0, 1, <<>>, 0)
  /\ \E r \in TransportResults :
       /\ log' = <<Call("read", devPtr, 0, 0, 1, r)>>
       /\ lastResult' = r
       /\ Return(r)
       /\ IF r # SUCCESS
          THEN buf' = <<0>> /\ devPtr' = devPtr
          ELSE buf' = <<DevRead(dev, devPtr)>> /\ devPtr' = U16(devPtr + 1)
  /\ UNCHANGED <<intBits, begun, memoryStatus, busStop, dev, storeLocals,
                 pages, fills, fillI>>

Next ==
  \/ \E c \in Configs : begin(c[1], c[2], c[3])
  \/ setPositionInBytes
  \/ setPositionInWords
  \/ \E q \in Requests : storeStream(q[1], Ramp(16, q[2]))
  \/ storeStreamLoop
  \/ \E q \in Requests : retrieveStream(q[1], q[2])
  \/ \E q \in Requests, v \in FillValues : fill(q[1], q[2], v)
  \/ fillLoop
  \/ erase
  \/ eraseLoop
  \/ \E t \in TypedRequests : store(t[1], t[2], t[3])
  \/ \E t \in TypedRequests : retrieve(t[1], t[2])
  \/ retrieveCurrent

Spec == Init /\ [][Next]_vars
----------------------------------------------------------------------------
(* Vocabulary of the properties *)

\* the capacity in bytes, as a number
capacityBytes == memoryStatus.maxPosition + 1

\* the last top-level call was one of names and has returned
Returned(names) == pc = "idle" /\ op.name \in names

\* every transport call of the top-level call succeeded
TransportOk == \A i \in 1..Len(log) : log[i].res = SUCCESS

\* the request of the top-level call lies within the capacity
ValidRequest == op.len > 0 /\ op.position + op.len <= capacityBytes

\* physical address of a logical position, as a number
Physical(p) == p + memoryStatus.minPosition

\* number of data bytes in the first k transport calls
RECURSIVE SentLen(_)
SentLen(k) == IF k = 0 THEN 0 ELSE log[k].len + SentLen(k - 1)

\* logical position reached after k page chunks of a request (pos, len)
RECURSIVE AfterChunks(_, _, _)
AfterChunks(pos, len, k) ==
  IF k = 0 \/ len = 0
  THEN pos
  ELSE LET chunk == Min(len, getPageSize - (pos % getPageSize))
       IN  AfterChunks(pos + chunk, len - chunk, k - 1)

\* the device holds byte(a) in the cells of range and is as it was when the
\* call started in all others
DeviceUpdated(range, byte(_)) ==
  \A a \in DOMAIN dev \cup DOMAIN memAtCall \cup range :
    DevRead(dev, a) = IF a \in range THEN byte(a) ELSE DevRead(memAtCall, a)

----------------------------------------------------------------------------
(* Properties *)

\* C1: a request with length > 0 and position + length <= capacityBytes,
\* the boundary position + length = capacityBytes included, passes the range
\* check: storeStream and retrieveStream do not return ERROR_POSITION.
C1_RangeAccepted ==
  (/\ Returned({"storeStream", "retrieveStream"})
   /\ op.len > 0
   /\ op.position + op.len <= capacityBytes)
  => ret # ERROR_POSITION

\* C2: storeStream, retrieveStream, store and retrieve return ERROR_POSITION
\* whenever length = 0 or position + length > maxPosition + 1.
C2_RangeRejected ==
  (/\ Returned({"storeStream", "retrieveStream", "store", "retrieve"})
   /\ (op.len = 0 \/ op.position + op.len > capacityBytes))
  => ret = ERROR_POSITION

\* C3: a storeStream, retrieveStream or fill that returns ERROR_POSITION has
\* issued no transport call.
C3_NoTransportOnPositionError ==
  (Returned({"storeStream", "retrieveStream", "fill"})
   /\ ret = ERROR_POSITION)
  => log = <<>>

\* C3 witness: a stream operation of a non-zero length was refused.
C3_Witness ==
  /\ Returned({"storeStream", "retrieveStream", "fill"})
  /\ ret = ERROR_POSITION
  /\ op.len > 0
  /\ nOps > 2

\* C4: the transport writes of a successful valid storeStream carry lengths
\* that sum to the length stored, all but the first and the last carry
\* pageSize bytes, and none carries bytes of two pages.
C4_PageChunks ==
  (Returned({"storeStream"}) /\ ValidRequest /\ ret = SUCCESS /\ TransportOk)
  => /\ SentLen(Len(log)) = op.len
     /\ \A i \in 2..(Len(log) - 1) : log[i].len = getPageSize
     /\ \A i \in 1..Len(log) :
          (op.position + SentLen(i - 1)) \div getPageSize
            = (op.position + SentLen(i) - 1) \div getPageSize

\* C5: a successful retrieveStream(P, buf, L) that follows a successful
\* storeStream(P, data, L) of a valid P and L leaves buf equal to data.
C5_RoundTrip ==
  [][(/\ Returned({"storeStream"})
      /\ ValidRequest
      /\ ret = SUCCESS
      /\ op'.name = "retrieveStream"
      /\ op'.position = op.position
      /\ op'.len = op.len
      /\ ret' = SUCCESS)
     => buf' = op.data]_vars

\* C6: fill(position, length, value) with position < capacityBytes and
\* length > capacityBytes - position returns success when the transport
\* succeeds, and writes value to the positions position .. capacityBytes - 1
\* and to nothing else.
C6_FillTruncates ==
  (/\ Returned({"fill"})
   /\ op.position < capacityBytes
   /\ op.len > capacityBytes - op.position
   /\ TransportOk)
  => /\ ret = SUCCESS
     /\ DeviceUpdated({Physical(p) : p \in op.position..(capacityBytes - 1)},
                      LAMBDA a : op.value)

\* C7: with a succeeding transport erase() makes capacityBytes \div pageSize
\* fill calls of length pageSize and value 0xFF at the positions 0, pageSize,
\* 2 * pageSize, ... in this order, returns success and leaves the trailing
\* partial page unwritten.
C7_ErasePages ==
  (Returned({"erase"}) /\ TransportOk)
  => /\ ret = SUCCESS
     /\ Len(fills) = capacityBytes \div getPageSize
     /\ \A i \in 1..Len(fills) :
          fills[i] = [position |-> (i - 1) * getPageSize,
                      len |-> getPageSize, value |-> 255]
     /\ \A p \in ((capacityBytes \div getPageSize) * getPageSize)
                   ..(capacityBytes - 1) :
          DevRead(dev, Physical(p)) = DevRead(memAtCall, Physical(p))

\* C8: when capacityBytes is a multiple of pageSize and the transport
\* succeeds, erase() returns success and every position 0 .. capacityBytes - 1
\* holds 0xFF afterwards.
C8_EraseAll ==
  (/\ Returned({"erase"})
   /\ TransportOk
   /\ capacityBytes % getPageSize = 0)
  => /\ ret = SUCCESS
     /\ \A p \in 0..(capacityBytes - 1) : DevRead(dev, Physical(p)) = 255

\* C9: a transport write of storeStream that fails is its last one: the
\* k-th write failing, storeStream has made k writes, makes no further one
\* and has returned the result of the failed write.
C9_StopAtFailure ==
  op.name = "storeStream"
  => \A k \in 1..Len(log) :
       log[k].res # SUCCESS
       => /\ k = Len(log)
          /\ pc = "idle"
          /\ ret = log[k].res

\* C9 witness: the second write of a storeStream failed with chunks left.
C9_Witness ==
  /\ Returned({"storeStream"})
  /\ Len(log) = 2
  /\ log[2].res \in TransportErrors
  /\ log[1].res = SUCCESS
  /\ AfterChunks(op.position, op.len, 2) < op.position + op.len

\* C10: after a storeStream that failed at chunk k > 1 the device is as it
\* was before the call but for the bytes of the chunks 1 .. k-1, which hold
\* the data of those chunks.
C10_NoRollback ==
  (/\ Returned({"storeStream"})
   /\ ValidRequest
   /\ Len(log) > 1
   /\ log[Len(log)].res # SUCCESS)
  => DeviceUpdated(
       {Physical(p) : p \in op.position
                        ..(AfterChunks(op.position, op.len, Len(log) - 1) - 1)},
       LAMBDA a : op.data[a - Physical(op.position) + 1])

\* the fill call f of erase is refused by the range check
FillRefused(f) == checkPosition(f.position, fillLen(f.position, f.len)) # SUCCESS

\* the last fill call of erase failed
EraseFailed ==
  /\ Len(fills) > 0
  /\ \/ FillRefused(fills[Len(fills)])
     \/ Len(log) > 0 /\ log[Len(log)].res # SUCCESS

\* C11: erase() stops at the first page whose fill fails: it returns that
\* failure, makes no fill and no transport call for a later page, and the
\* pages before it hold 0xFF.
C11_EraseStopsAtFailure ==
  op.name = "erase"
  => /\ \A j \in 1..Len(log) :
          log[j].res # SUCCESS
          => j = Len(log) /\ pc = "idle" /\ ret = log[j].res
     /\ \A k \in 1..Len(fills) :
          FillRefused(fills[k])
          => k = Len(fills) /\ pc = "idle" /\ ret = ERROR_POSITION
     /\ (pc = "idle" /\ EraseFailed)
        => \A k \in 1..(Len(fills) - 1) :
             \A p \in fills[k].position..(fills[k].position + fills[k].len - 1) :
               DevRead(dev, Physical(p)) = 255

\* C11 witness: the fill of the second of three pages failed on the bus.
C11_Witness ==
  /\ Returned({"erase"})
  /\ Len(fills) = 2
  /\ Len(log) = 2
  /\ log[2].res \in TransportErrors
  /\ capacityBytes \div getPageSize >= 3

\* logical positions 0 .. maxPosition: all of a small memory, the ends and
\* the byte boundary of a large one
LogicalPositions ==
  IF memoryStatus.maxPosition < 64
  THEN 0..memoryStatus.maxPosition
  ELSE {0, 1, 255, 256, memoryStatus.maxPosition - 1, memoryStatus.maxPosition}

\* C12: getPositionReal(p) is p + minPosition, not wrapped, for every logical
\* position p in 0 .. maxPosition, and is at most the maximal position that
\* begin was called with.
C12_PositionReal ==
  begun
  => \A p \in LogicalPositions :
       /\ getPositionReal(p) = p + memoryStatus.minPosition
       /\ Returned({"begin"}) => getPositionReal(p) <= op.len

\* C12 witness: begin has set a memory of several bytes that starts above 0.
C12_Witness ==
  /\ Returned({"begin"})
  /\ memoryStatus.minPosition > 0
  /\ memoryStatus.maxPosition > 0

\* C13: begin(requestedMaxPosition, pageSize, minPosition) leaves
\* 0 <= minPosition <= requestedMaxPosition, maxPosition =
\* requestedMaxPosition - minPosition and pageSize >= 1, whatever its
\* arguments, and no other operation changes these three fields.
C13_ConfigurationKept ==
  [][IF op'.name = "begin" /\ nOps' = nOps + 1
     THEN /\ 0 <= memoryStatus'.minPosition
          /\ memoryStatus'.minPosition <= op'.len
          /\ memoryStatus'.maxPosition = op'.len - memoryStatus'.minPosition
          /\ memoryStatus'.pageSize >= 1
     ELSE /\ memoryStatus'.minPosition = memoryStatus.minPosition
          /\ memoryStatus'.maxPosition = memoryStatus.maxPosition
          /\ memoryStatus'.pageSize = memoryStatus.pageSize]_vars

\* C13 witness: begin was called with minPosition above the maximal
\* position and with pageSize 0.
C13_Witness ==
  /\ Returned({"begin"})
  /\ op.position > op.len
  /\ op.value = 0

\* C14: a valid retrieveStream(position, buffer, length) with a succeeding
\* transport makes one address write of the physical address of position and
\* then one read of length bytes, and no other transport call.
C14_SingleRead ==
  (Returned({"retrieveStream"}) /\ ValidRequest /\ TransportOk)
  => /\ Len(log) = 2
     /\ log[1].call = "addr"
     /\ \/ log[1].addrLen = 2 /\ log[1].addr = Physical(op.position)
        \/ log[1].addrLen = 1 /\ log[1].addr = Physical(op.position) % 256
     /\ log[2].call = "read"
     /\ log[2].len = op.len

\* the value of the typed call fits the capacity and one page at position 0
TypedFits ==
  op.position = 0 /\ op.len <= capacityBytes /\ op.len <= getPageSize

\* C15: store<T>(0, v) and retrieve<T>(0, w) return success when sizeof(T)
\* bytes fit the capacity and one page and the transport succeeds, and a
\* successful retrieve<T>(0, w) that follows a successful store<T>(0, v)
\* leaves w with the bytes of v.
C15_TypedRoundTrip ==
  [][/\ (Returned({"store", "retrieve"}) /\ TypedFits /\ TransportOk)'
        => ret' = SUCCESS
     /\ (/\ Returned({"store"})
         /\ TypedFits
         /\ ret = SUCCESS
         /\ op'.name = "retrieve"
         /\ op'.position = 0
         /\ op'.len = op.len
         /\ ret' = SUCCESS)
        => buf' = LEBytes(op.value, op.len)]_vars

\* C16: getPages() is capacityBytes \div pageSize, capacityBytes being
\* maxPosition + 1, in every configuration set by begin, the largest capacity
\* (maxPosition = 65535) included.
C16_Pages == begun => getPages = capacityBytes \div getPageSize

\* C17: each transport write of storeStream is prefixed with the physical
\* address of the running logical position of its chunk, in 1 byte in byte
\* addressing and in 2 bytes otherwise, so that consecutive writes address
\* consecutive device ranges.
C17_ChunkAddress ==
  (op.name = "storeStream" /\ ValidRequest)
  => /\ \A i \in 1..Len(log) :
          LET real == Physical(AfterChunks(op.position, op.len, i - 1))
          IN  \/ log[i].addrLen = 1 /\ log[i].addr = real % 256
              \/ log[i].addrLen = 2 /\ log[i].addr = real
     /\ \A i \in 1..(Len(log) - 1) :
          log[i].addrLen = 2 => log[i + 1].addr = log[i].addr + log[i].len

\* C18: in every iteration of the loop of a valid storeStream with a
\* succeeding transport the chunk by which length, buffer and position
\* advance is min(remaining length, pageSize - position mod pageSize), at
\* least 1 and at most the remaining length, so that the loop ends.
C18_ChunkAdvances ==
  (pc = "store" /\ op.name = "storeStream" /\ ValidRequest /\ TransportOk)
  => /\ pageLen(position, dataLen)
          = Min(dataLen, getPageSize - (position % getPageSize))
     /\ pageLen(position, dataLen) >= 1
     /\ pageLen(position, dataLen) <= dataLen

\* C19: the loop of fill that sets its buffer ends for every length L, also
\* for L > 255: each pass moves the counter i one up towards L.
C19_FillBufferLoopEnds == [][pc = "fill" => fillI' = fillI + 1]_vars

\* C20: checkPosition refuses every position and length whose sum exceeds
\* capacityBytes, also when the sum exceeds 65535.
C20_NoWraparound ==
  begun
  => \A q \in Requests :
       q[1] + q[2] > capacityBytes => checkPosition(q[1], q[2]) = ERROR_POSITION

\* C21: a retrieveStream whose address write fails makes no read call and no
\* second address write, leaves the caller's buffer as it was handed over
\* and returns the result of the failed write.
C21_AddressFailureReturned ==
  (/\ op.name \in {"retrieveStream", "retrieve"}
   /\ Len(log) > 0
   /\ log[1].res # SUCCESS)
  => /\ pc = "idle"
     /\ log[1].call = "addr"
     /\ Len(log) = 1
     /\ buf = [i \in 1..op.len |-> 0]
     /\ ret = log[1].res

\* C21 witness: the address write of a valid retrieveStream failed.
C21_Witness ==
  /\ Returned({"retrieveStream"})
  /\ ValidRequest
  /\ checkPosition(op.position, op.len) = SUCCESS
  /\ Len(log) = 1
  /\ log[1].res \in TransportErrors

\* C22: the repeated start mode that retrieveStream sets does not outlive the
\* call: whenever retrieveStream has returned, with success, with
\* ERROR_POSITION or with a failure of its address write or of its read, and
\* during every later operation, the bus is in stop mode.
C22_StopModeRestored == begun => busStop

\* C23: every transport write of storeStream, store, fill and erase covers
\* only physical addresses in minPosition .. minPosition + maxPosition.
C23_WritesInRegion ==
  op.name \in {"storeStream", "store", "fill", "erase"}
  => \A i \in 1..Len(log) :
       log[i].call = "write"
       => /\ memoryStatus.minPosition <= log[i].addr
          /\ log[i].addr + log[i].len - 1
               <= memoryStatus.minPosition + memoryStatus.maxPosition

\* C24: all physical addresses that one transport write of a valid
\* storeStream covers lie in one page of the device, also when minPosition is
\* not a multiple of pageSize.
C24_NoPageStraddle ==
  (op.name = "storeStream" /\ ValidRequest)
  => \A i \in 1..Len(log) :
       log[i].addrLen = 2
       => log[i].addr \div getPageSize
            = (log[i].addr + log[i].len - 1) \div getPageSize

\* C25: the result of an operation does not depend on the result of an
\* earlier one: an operation whose transport calls all succeeded returns
\* success, and erase() with zero pages (pageSize > capacityBytes) makes no
\* transport call and returns success, whatever the operation before it
\* returned.
C25_ResultOfOwnCall ==
  /\ (/\ Returned({"storeStream", "retrieveStream", "fill", "store",
                   "retrieve", "retrieveCurrent"})
      /\ Len(log) > 0
      /\ TransportOk)
     => ret = SUCCESS
  /\ (Returned({"erase"}) /\ getPageSize > capacityBytes)
     => log = <<>> /\ ret = SUCCESS

\* C26: fill(position, length, value) with position >= capacityBytes
\* returns ERROR_POSITION for every length and makes no transport call.
C26_FillBeyondCapacity ==
  (op.name = "fill" /\ op.position >= capacityBytes)
  => pc = "idle" /\ ret = ERROR_POSITION /\ log = <<>>
====
